---- MODULE Spec2Model ----
(***************************************************************************)
(* The agent control loop of Weather_and_CLI_Agent: run_agent, the shared  *)
(* message_history, the tools registry and (cli.py only) safe_llm_call.    *)
(* Both programs, cli.py and app.py, are modelled; `program` says which    *)
(* one a behaviour is about.                                               *)
(*                                                                         *)
(* Texts (message contents, model replies) are modelled by their syntactic *)
(* form: text that is not JSON ("prose"), JSON that is not an object       *)
(* ("array"), or a JSON object with the fields step, content, tool, input   *)
(* and output, each present or None.  Reply texts are taken up to          *)
(* surrounding whitespace.                                                 *)
(***************************************************************************)
EXTENDS Integers, Sequences, FiniteSets, TLC

VARIABLES
    program,          \* "cli" (src/cli.py) or "app" (src/app.py)
    viaMain,          \* TRUE: run under main(); FALSE: run_agent called by an importing caller
    pc,               \* position of the control flow
    message_history,  \* the process-wide conversation memory
    tool_name,        \* local of run_agent while a tool executes
    tool_input,       \* local of run_agent while a tool executes
    raw,              \* local of run_agent: the text of the latest reply
    raised,           \* the exception that ended the last run, or None
    requests,         \* number of run_agent calls so far
    attempts,         \* number of client.chat.completions.create calls so far
    tries,            \* create calls made for the current model call of the loop
    sleeps,           \* time.sleep(5) waits made for the current model call
    rateFails,        \* rate-limit failures met by the current model call
    otherFails,       \* other failures met by the current model call
    runCalls,         \* model calls (loop iterations) started in the current run
    runTools,         \* tool invocations made in the current run
    toolsSince,       \* tool invocations made since the latest reply
    runAttempts,      \* create calls made in the current run
    runFails,         \* create calls of the current run that raised
    final_answer,     \* the content printed as the agent's answer, or None
    sent              \* the messages argument of the latest create call

vars == <<program, viaMain, pc, message_history, tool_name, tool_input, raw,
          raised, requests, attempts, tries, sleeps, rateFails, otherFails,
          runCalls, runTools, toolsSince, runAttempts, runFails,
          final_answer, sent>>

(***************************************************************************)
(* Bounds of the model.                                                    *)
(***************************************************************************)
MaxRequests == 3
MaxAttempts == 3

None == "None"

(***************************************************************************)
(* Texts.                                                                  *)
(***************************************************************************)
Prose(body) ==
    [form |-> "prose", step |-> None, content |-> body, tool |-> None,
     input |-> None, output |-> None]

JsonArray(body) ==
    [form |-> "array", step |-> None, content |-> body, tool |-> None,
     input |-> None, output |-> None]

JsonObject(step, content, tool, input, output) ==
    [form |-> "object", step |-> step, content |-> content, tool |-> tool,
     input |-> input, output |-> output]

SYSTEM_PROMPT == Prose("SYSTEM_PROMPT")

\* no reply received yet in this run
NoRaw ==
    [form |-> "none", step |-> None, content |-> None, tool |-> None,
     input |-> None, output |-> None]

\* json.dumps of a dict
json_dumps(d) == JsonObject(d.step, d.content, d.tool, d.input, d.output)

\* json.loads: raises on text that is not JSON, else returns the value
json_loads_raises(text) == text.form = "prose"

json_loads(text) == text

\* step.get(key): raises AttributeError unless the value is a dict
get_raises(value) == value.form # "object"

(***************************************************************************)
(* The tools.  Each catches every Exception of its body and returns a      *)
(* string; ToolResults gives the outcomes a call can have.  An exception   *)
(* that a tool lets escape is an outcome of ToolExceptions.                *)
(***************************************************************************)
ToolExceptions ==
    {"raise TypeError", "raise AttributeError", "raise FileNotFoundError"}

run_command(cmd) ==
    IF cmd = None THEN {"TypeError"}
    ELSE {"stdout", "Done.", "OSError"}

write_file(payload) ==
    IF payload = None THEN {"Write error: TypeError"}
    ELSE {"written successfully", "Write error: JSONDecodeError"}

\* read_file with the try/except left out
read_file_unguarded(filename) ==
    IF filename = None THEN {"raise TypeError"}
    ELSE {"file text", "raise FileNotFoundError"}

read_file(filename) ==
    IF filename = None THEN {"Read error: TypeError"}
    ELSE {"file text", "Read error: FileNotFoundError"}

get_weather(city) ==
    IF city = None THEN {"Weather API error"}
    ELSE {"The weather in city is", "Weather service unavailable",
          "Weather API error"}

\* the keys of the tools registry
tools ==
    IF program = "cli" THEN {"run_command", "write_file", "read_file"}
    ELSE {"get_weather"}

\* tools[name](input)
ToolResults(name, input) ==
    CASE name = "run_command" -> run_command(input)
      [] name = "write_file"  -> write_file(input)
      [] name = "read_file"   -> read_file(input)
      [] name = "get_weather" -> get_weather(input)

(***************************************************************************)
(* Messages.                                                               *)
(***************************************************************************)
SystemMessage == [role |-> "system", content |-> SYSTEM_PROMPT]

UserMessage(user_query) == [role |-> "user", content |-> Prose(user_query)]

AssistantMessage(text) == [role |-> "assistant", content |-> text]

\* ObservationMessage with the tool and output values interchanged
ObservationMessage_swapped(name, result) ==
    [role |-> "developer",
     content |-> json_dumps([step |-> "OBSERVE", content |-> None,
                             tool |-> result, input |-> None,
                             output |-> name])]

ObservationMessage(name, result) ==
    [role |-> "developer",
     content |-> json_dumps([step |-> "OBSERVE", content |-> None,
                             tool |-> name, input |-> None,
                             output |-> result])]

(***************************************************************************)
(* The environment: what the user types, what the model service answers.   *)
(***************************************************************************)
Queries == {"weather in Paris"}

Lower(s) == IF s = "EXIT" THEN "exit" ELSE s

\* message.content of a successful response, when it is text
Replies ==
    { Prose("not json"),
      JsonArray("[1]"),
      JsonObject(None, "hi", None, None, None),
      JsonObject("START", "begin", None, None, None),
      JsonObject("PLAN", "think", None, None, None),
      JsonObject("TOOL", None, "get_weather", "Paris", None),
      JsonObject("TOOL", None, "read_file", "a.txt", None),
      JsonObject("TOOL", None, "read_file", None, None),
      JsonObject("TOOL", None, "delete_everything", "x", None),
      JsonObject("TOOL", None, None, "x", None),
      JsonObject("OUTPUT", "It is sunny", None, None, None) }

\* exceptions of the model service: its type and the characters of str(e)
RateLimitError ==
    [type |-> "RateLimitError", str |-> <<"E", " ", "4", "2", "9">>]

APIConnectionError ==
    [type |-> "APIConnectionError", str |-> <<"d", "o", "w", "n">>]

InternalServerError ==
    [type |-> "InternalServerError", str |-> <<"5", "0", "0", " ", "i", "d", "4", "2", "9", "1">>]

ServiceErrors == {RateLimitError, APIConnectionError, InternalServerError}

IsRateLimit(e) == e.type = "RateLimitError"

\* "429" in str(e)
Has429(s) ==
    \E i \in 1..(Len(s) - 2) :
        s[i] = "4" /\ s[i + 1] = "2" /\ s[i + 2] = "9"

(***************************************************************************)
(* Initial state: the module has been loaded.                              *)
(***************************************************************************)
Init ==
    /\ program \in {"cli", "app"}
    /\ viaMain \in BOOLEAN
    /\ pc = "idle"
    /\ message_history = <<SystemMessage>>
    /\ tool_name = None
    /\ tool_input = None
    /\ raw = NoRaw
    /\ raised = None
    /\ requests = 0
    /\ attempts = 0
    /\ tries = 0
    /\ sleeps = 0
    /\ rateFails = 0
    /\ otherFails = 0
    /\ runCalls = 0
    /\ runTools = 0
    /\ toolsSince = 0
    /\ runAttempts = 0
    /\ runFails = 0
    /\ final_answer = None
    /\ sent = <<>>

\* the state of a run that starts
RunStart ==
    /\ requests' = requests + 1
    /\ pc' = "call"
    /\ raised' = None
    /\ tries' = 0
    /\ sleeps' = 0
    /\ rateFails' = 0
    /\ otherFails' = 0
    /\ runCalls' = 1
    /\ runTools' = 0
    /\ toolsSince' = 0
    /\ raw' = NoRaw
    /\ tool_name' = None
    /\ tool_input' = None
    /\ runAttempts' = 0
    /\ runFails' = 0
    /\ final_answer' = None
    /\ UNCHANGED <<program, viaMain, attempts, sent>>

\* run_agent with a memory that is built anew for every request
run_agent_fresh(user_query) ==
    /\ requests < MaxRequests
    /\ message_history' = <<SystemMessage, UserMessage(user_query)>>
    /\ RunStart

\* run_agent that seeds the system prompt again for every request
run_agent_reseed(user_query) ==
    /\ requests < MaxRequests
    /\ message_history' =
           message_history \o <<SystemMessage, UserMessage(user_query)>>
    /\ RunStart

\* run_agent that first drops a user message left unanswered
run_agent_repair(user_query) ==
    /\ requests < MaxRequests
    /\ message_history' =
           IF message_history[Len(message_history)].role = "user"
           THEN Append(SubSeq(message_history, 1, Len(message_history) - 1),
                       UserMessage(user_query))
           ELSE Append(message_history, UserMessage(user_query))
    /\ RunStart

(***************************************************************************)
(* run_agent(user_query): entry.  Appends the user message and enters the  *)
(* loop.                                                                   *)
(***************************************************************************)
run_agent(user_query) ==
    /\ requests < MaxRequests
    /\ message_history' = Append(message_history, UserMessage(user_query))
    /\ RunStart

\* main(): one turn of the read loop
main ==
    /\ viaMain
    /\ pc \in {"idle", "done"}
    /\ \E user \in Queries \cup {"exit", "EXIT"} :
        IF Lower(user) = "exit"
        THEN /\ pc' = "exited"
             /\ UNCHANGED <<program, viaMain, runAttempts, runFails, final_answer,
                            message_history, tool_name,
                            tool_input, raw, raised, requests, attempts,
                            tries, sleeps, rateFails, otherFails, runCalls,
                            runTools, toolsSince, sent>>
        ELSE run_agent(user)

\* a caller that imported the module calls run_agent, also after a run
\* that raised
caller ==
    /\ ~viaMain
    /\ pc \in {"idle", "done", "aborted"}
    /\ \E user_query \in Queries : run_agent(user_query)

(***************************************************************************)
(* The model call.  cli.py calls create inside safe_llm_call, app.py calls *)
(* it directly.                                                            *)
(***************************************************************************)
\* reply_received for a request that carried only the system message and
\* the latest message
reply_received_window(content) ==
    /\ pc = "call"
    /\ attempts < MaxAttempts
    /\ attempts' = attempts + 1
    /\ tries' = tries + 1
    /\ sent' = <<SystemMessage, message_history[Len(message_history)]>>
    /\ runAttempts' = runAttempts + 1
    /\ raw' = content
    /\ message_history' = Append(message_history, AssistantMessage(content))
    /\ toolsSince' = 0
    /\ pc' = "decode"
    /\ UNCHANGED <<program, viaMain, runFails, final_answer, tool_name,
                   tool_input, raised, requests, sleeps, rateFails,
                   otherFails, runCalls, runTools>>

\* create returns a response with text: the text is appended as an
\* assistant message
reply_received(content) ==
    /\ pc = "call"
    /\ attempts < MaxAttempts
    /\ attempts' = attempts + 1
    /\ tries' = tries + 1
    /\ sent' = message_history
    /\ runAttempts' = runAttempts + 1
    /\ raw' = content
    /\ message_history' = Append(message_history, AssistantMessage(content))
    /\ toolsSince' = 0
    /\ pc' = "decode"
    /\ UNCHANGED <<program, viaMain, runFails, final_answer,
                   tool_name, tool_input, raised, requests,
                   sleeps, rateFails, otherFails, runCalls, runTools>>

\* the bookkeeping of a failed create call
FailedAttempt(e) ==
    /\ attempts' = attempts + 1
    /\ tries' = tries + 1
    /\ runAttempts' = runAttempts + 1
    /\ runFails' = runFails + 1
    /\ sent' = message_history
    /\ rateFails' = IF IsRateLimit(e) THEN rateFails + 1 ELSE rateFails
    /\ otherFails' = IF IsRateLimit(e) THEN otherFails ELSE otherFails + 1

\* safe_llm_call_except that retries a rate-limited call without waiting
safe_llm_call_except_nosleep(e) ==
    /\ program = "cli"
    /\ pc = "call"
    /\ attempts < MaxAttempts
    /\ FailedAttempt(e)
    /\ IF Has429(e.str)
       THEN /\ pc' = "call"
            /\ UNCHANGED raised
       ELSE /\ pc' = "aborted"
            /\ raised' = e.type
    /\ UNCHANGED <<program, viaMain, final_answer,
                   message_history, tool_name, tool_input,
                   raw, requests, sleeps, runCalls, runTools, toolsSince>>

\* safe_llm_call_except that records the rate-limit notice in the memory
safe_llm_call_except_logged(e) ==
    /\ program = "cli"
    /\ pc = "call"
    /\ attempts < MaxAttempts
    /\ FailedAttempt(e)
    /\ IF Has429(e.str)
       THEN /\ pc' = "sleep"
            /\ sleeps' = sleeps + 1
            /\ message_history' =
                   Append(message_history,
                          [role |-> "developer",
                           content |-> Prose("Rate limit hit")])
            /\ UNCHANGED raised
       ELSE /\ pc' = "aborted"
            /\ raised' = e.type
            /\ UNCHANGED <<sleeps, message_history>>
    /\ UNCHANGED <<program, viaMain, final_answer, tool_name, tool_input,
                   raw, requests, runCalls, runTools, toolsSince>>

\* cli.py: create raises e inside safe_llm_call
safe_llm_call_except(e) ==
    /\ program = "cli"
    /\ pc = "call"
    /\ attempts < MaxAttempts
    /\ FailedAttempt(e)
    /\ IF Has429(e.str)
       THEN /\ pc' = "sleep"
            /\ sleeps' = sleeps + 1
            /\ UNCHANGED raised
       ELSE /\ pc' = "aborted"
            /\ raised' = e.type
            /\ UNCHANGED sleeps
    /\ UNCHANGED <<program, viaMain, final_answer,
                   message_history, tool_name, tool_input,
                   raw, requests, runCalls, runTools, toolsSince>>

\* cli.py: time.sleep(5) returns and the while loop of safe_llm_call repeats
sleep_returns ==
    /\ pc = "sleep"
    /\ pc' = "call"
    /\ UNCHANGED <<program, viaMain, runAttempts, runFails, final_answer,
                   message_history, tool_name, tool_input,
                   raw, raised, requests, attempts, tries, sleeps, rateFails,
                   otherFails, runCalls, runTools, toolsSince, sent>>

\* app.py: create raises e; nothing catches it
create_raises(e) ==
    /\ program = "app"
    /\ pc = "call"
    /\ attempts < MaxAttempts
    /\ FailedAttempt(e)
    /\ pc' = "aborted"
    /\ raised' = e.type
    /\ UNCHANGED <<program, viaMain, final_answer,
                   message_history, tool_name, tool_input,
                   raw, requests, sleeps, runCalls, runTools, toolsSince>>

(***************************************************************************)
(* The rest of one loop iteration: parsing and dispatching the reply.      *)
(***************************************************************************)
\* `continue`: the next iteration starts with a new model call
Continue ==
    /\ pc' = "call"
    /\ runCalls' = runCalls + 1
    /\ tries' = 0
    /\ sleeps' = 0
    /\ rateFails' = 0
    /\ otherFails' = 0

\* parse_error that also discards the invalid assistant message
parse_error_discard ==
    /\ pc = "decode"
    /\ json_loads_raises(raw)
    /\ message_history' = SubSeq(message_history, 1, Len(message_history) - 1)
    /\ Continue
    /\ UNCHANGED <<program, viaMain, runAttempts, runFails, final_answer,
                   tool_name, tool_input, raw, raised,
                   requests, attempts, runTools, toolsSince, sent>>

\* json.loads(raw) raises: "Invalid JSON, retrying"
parse_error ==
    /\ pc = "decode"
    /\ json_loads_raises(raw)
    /\ Continue
    /\ UNCHANGED <<program, viaMain, runAttempts, runFails, final_answer,
                   message_history, tool_name, tool_input,
                   raw, raised, requests, attempts, runTools, toolsSince,
                   sent>>

\* json.loads(raw) returns a value that is no dict: step.get raises
not_a_dict ==
    /\ pc = "decode"
    /\ ~json_loads_raises(raw)
    /\ get_raises(json_loads(raw))
    /\ pc' = "aborted"
    /\ raised' = "AttributeError"
    /\ UNCHANGED <<program, viaMain, runAttempts, runFails, final_answer,
                   message_history, tool_name, tool_input,
                   raw, requests, attempts, tries, sleeps, rateFails,
                   otherFails, runCalls, runTools, toolsSince, sent>>

\* the reply parsed to a dict
Parsed == pc = "decode" /\ ~json_loads_raises(raw) /\ ~get_raises(json_loads(raw))

step_type == json_loads(raw).step

\* plan_step with `break` in place of `continue`
plan_step_break ==
    /\ Parsed
    /\ step_type = "PLAN"
    /\ pc' = "done"
    /\ UNCHANGED <<program, viaMain, runAttempts, runFails, final_answer,
                   message_history, tool_name, tool_input,
                   raw, raised, requests, attempts, tries, sleeps, rateFails,
                   otherFails, runCalls, runTools, toolsSince, sent>>

\* plan_step that reports the plan back to the model as a message
plan_step_echo ==
    /\ Parsed
    /\ step_type = "PLAN"
    /\ message_history' =
           Append(message_history,
                  [role |-> "developer", content |-> json_loads(raw)])
    /\ Continue
    /\ UNCHANGED <<program, viaMain, runAttempts, runFails, final_answer,
                   tool_name, tool_input, raw, raised,
                   requests, attempts, runTools, toolsSince, sent>>

\* if step_type == "PLAN"
plan_step ==
    /\ Parsed
    /\ step_type = "PLAN"
    /\ Continue
    /\ UNCHANGED <<program, viaMain, runAttempts, runFails, final_answer,
                   message_history, tool_name, tool_input,
                   raw, raised, requests, attempts, runTools, toolsSince,
                   sent>>

\* if step_type == "TOOL", and tools[tool_name] finds the tool: it is called
tool_step ==
    /\ Parsed
    /\ step_type = "TOOL"
    /\ json_loads(raw).tool \in tools
    /\ tool_name' = json_loads(raw).tool
    /\ tool_input' = json_loads(raw).input
    /\ runTools' = runTools + 1
    /\ toolsSince' = toolsSince + 1
    /\ pc' = "tool"
    /\ UNCHANGED <<program, viaMain, runAttempts, runFails, final_answer,
                   message_history, raw, raised, requests,
                   attempts, tries, sleeps, rateFails, otherFails, runCalls,
                   sent>>

\* tool_missing with the lookup guarded and the step skipped
tool_missing_skip ==
    /\ Parsed
    /\ step_type = "TOOL"
    /\ json_loads(raw).tool \notin tools
    /\ tool_name' = json_loads(raw).tool
    /\ tool_input' = json_loads(raw).input
    /\ Continue
    /\ UNCHANGED <<program, viaMain, runAttempts, runFails, final_answer,
                   message_history, raw, raised, requests,
                   attempts, runTools, toolsSince, sent>>

\* if step_type == "TOOL", and tools[tool_name] raises KeyError
tool_missing ==
    /\ Parsed
    /\ step_type = "TOOL"
    /\ json_loads(raw).tool \notin tools
    /\ tool_name' = json_loads(raw).tool
    /\ tool_input' = json_loads(raw).input
    /\ pc' = "aborted"
    /\ raised' = "KeyError"
    /\ UNCHANGED <<program, viaMain, runAttempts, runFails, final_answer,
                   message_history, raw, requests, attempts,
                   tries, sleeps, rateFails, otherFails, runCalls, runTools,
                   toolsSince, sent>>

\* tool_returns with the observation left out
tool_returns_silent ==
    /\ pc = "tool"
    /\ Continue
    /\ UNCHANGED <<program, viaMain, runAttempts, runFails, final_answer,
                   message_history, tool_name, tool_input,
                   raw, raised, requests, attempts, runTools, toolsSince,
                   sent>>

\* tool_returns that dispatches the same step again
tool_returns_again ==
    /\ pc = "tool"
    /\ \E result \in ToolResults(tool_name, tool_input) :
           message_history' =
               Append(message_history, ObservationMessage(tool_name, result))
    /\ pc' = "decode"
    /\ UNCHANGED <<program, viaMain, runAttempts, runFails, final_answer,
                   tool_name, tool_input, raw, raised, requests, attempts,
                   tries, sleeps, rateFails, otherFails, runCalls, runTools,
                   toolsSince, sent>>

\* the tool returns result: the observation is appended; an exception
\* escaping the tool would leave run_agent
tool_returns ==
    /\ pc = "tool"
    /\ \E result \in ToolResults(tool_name, tool_input) :
           IF result \in ToolExceptions
           THEN /\ pc' = "aborted"
                /\ raised' = result
                /\ UNCHANGED <<message_history, runCalls, tries, sleeps,
                               rateFails, otherFails>>
           ELSE /\ message_history' =
                       Append(message_history,
                              ObservationMessage(tool_name, result))
                /\ Continue
                /\ UNCHANGED raised
    /\ UNCHANGED <<program, viaMain, runAttempts, runFails, final_answer,
                   tool_name, tool_input, raw, requests, attempts, runTools,
                   toolsSince, sent>>

\* output_step with the `break` left out
output_step_continue ==
    /\ Parsed
    /\ step_type = "OUTPUT"
    /\ final_answer' = json_loads(raw).content
    /\ Continue
    /\ UNCHANGED <<program, viaMain, runAttempts, runFails, message_history,
                   tool_name, tool_input, raw, raised, requests, attempts,
                   runTools, toolsSince, sent>>

\* if step_type == "OUTPUT": break
output_step ==
    /\ Parsed
    /\ step_type = "OUTPUT"
    /\ final_answer' = json_loads(raw).content
    /\ pc' = "done"
    /\ UNCHANGED <<program, viaMain, runAttempts, runFails,
                   message_history, tool_name, tool_input,
                   raw, raised, requests, attempts, tries, sleeps, rateFails,
                   otherFails, runCalls, runTools, toolsSince, sent>>

\* no if matches: the while loop repeats
other_step ==
    /\ Parsed
    /\ step_type \notin {"PLAN", "TOOL", "OUTPUT"}
    /\ Continue
    /\ UNCHANGED <<program, viaMain, runAttempts, runFails, final_answer,
                   message_history, tool_name, tool_input,
                   raw, raised, requests, attempts, runTools, toolsSince,
                   sent>>

Next ==
    \/ main
    \/ caller
    \/ \E content \in Replies : reply_received(content)
    \/ \E e \in ServiceErrors : safe_llm_call_except(e)
    \/ sleep_returns
    \/ \E e \in ServiceErrors : create_raises(e)
    \/ parse_error
    \/ not_a_dict
    \/ plan_step
    \/ tool_step
    \/ tool_missing
    \/ tool_returns
    \/ output_step
    \/ other_step

Spec == Init /\ [][Next]_vars

(***************************************************************************)
(* Notions the properties are stated in.                                   *)
(***************************************************************************)
Last(h) == h[Len(h)]

IsPrefix(g, h) == Len(g) <= Len(h) /\ SubSeq(h, 1, Len(g)) = g

\* the number of observation messages at the end of h
RECURSIVE TrailingObs(_)
TrailingObs(h) ==
    IF h = <<>> THEN 0
    ELSE IF Last(h).role # "developer" THEN 0
    ELSE 1 + TrailingObs(SubSeq(h, 1, Len(h) - 1))

IsStep(text, kind) == text.form = "object" /\ text.step = kind

RegisteredTool(text) == IsStep(text, "TOOL") /\ text.tool \in tools

UnregisteredTool(text) == IsStep(text, "TOOL") /\ text.tool \notin tools

UnknownStep(text) ==
    text.form = "object" /\ text.step \notin {"PLAN", "TOOL", "OUTPUT"}

Ended == pc \in {"done", "aborted"}

\* this step is a call of client.chat.completions.create
ModelCall == attempts' = attempts + 1

(***************************************************************************)
(* C1 as stated: whenever a run has ended, the last reply it received      *)
(* decoded to an OUTPUT step; nothing but an OUTPUT step ends a run.       *)
(***************************************************************************)
C1_Original == Ended => IsStep(raw, "OUTPUT")

(***************************************************************************)
(* C1 amended: a run RETURNS if and only if an OUTPUT step is produced: a  *)
(* run returns only from an OUTPUT reply, and an OUTPUT reply makes the    *)
(* run return without another model call.  PLAN steps, TOOL steps of a     *)
(* registered tool, replies that are not JSON, objects with a missing or   *)
(* unrecognized step and (cli.py) failures whose text contains "429" do    *)
(* not end a run.  A run is also ended, by an exception leaving run_agent, *)
(* by every other model-service failure, by a JSON reply that is not an    *)
(* object and by a TOOL step of an unregistered tool.                      *)
(***************************************************************************)
C1_Amended ==
    [][ /\ (pc' = "done" /\ pc # "done")
            => pc = "decode" /\ IsStep(raw, "OUTPUT")
        /\ (pc = "decode" /\ IsStep(raw, "OUTPUT"))
            => pc' = "done" /\ ~ModelCall /\ message_history' = message_history
        /\ pc' = "done"
            => Last(message_history') = AssistantMessage(raw')
               /\ IsStep(raw', "OUTPUT")
        /\ (pc = "decode" /\ (raw.form = "prose" \/ IsStep(raw, "PLAN")
                              \/ UnknownStep(raw)))
            => pc' = "call"
        /\ (pc = "decode" /\ RegisteredTool(raw)) => pc' = "tool"
        /\ pc = "tool" => pc' = "call"
        /\ pc = "sleep" => pc' = "call"
        /\ (pc' = "aborted" /\ pc # "aborted")
            => \/ pc = "call" /\ ModelCall
                  /\ raised' \in {"RateLimitError", "APIConnectionError",
                                  "InternalServerError"}
                  /\ (program = "cli" => raised' = "APIConnectionError")
               \/ pc = "decode" /\ raw.form = "array"
                  /\ raised' = "AttributeError"
               \/ pc = "decode" /\ UnregisteredTool(raw)
                  /\ raised' = "KeyError"
      ]_vars

C1_Witness ==
    /\ pc = "done"
    /\ IsStep(raw, "OUTPUT")
    /\ runCalls = 3
    /\ runTools = 1

(***************************************************************************)
(* C2: a TOOL reply naming a registered tool has the tool invoked exactly  *)
(* once and exactly one observation message (role "developer", step        *)
(* "OBSERVE") appended, right after the reply, before the next model call. *)
(***************************************************************************)
C2_OneObservation ==
    [][ /\ (pc = "decode" /\ RegisteredTool(raw))
            => /\ toolsSince = 0
               /\ toolsSince' = 1
               /\ pc' = "tool"
               /\ message_history' = message_history
        /\ (pc = "tool" /\ RegisteredTool(raw))
            => /\ toolsSince' = 1
               /\ pc' = "call"
               /\ \E result \in ToolResults(raw.tool, raw.input) :
                      message_history' =
                          Append(message_history,
                                 [role |-> "developer",
                                  content |-> JsonObject("OBSERVE", None,
                                                  raw.tool, None, result)])
        /\ (ModelCall /\ RegisteredTool(raw))
            => /\ toolsSince = 1
               /\ TrailingObs(message_history) = 1
               /\ Len(message_history) >= 2
               /\ message_history[Len(message_history) - 1]
                      = AssistantMessage(raw)
               /\ Last(message_history).content.tool = raw.tool
        /\ RegisteredTool(raw')
            => toolsSince' <= 1 /\ TrailingObs(message_history') <= 1
      ]_vars

C2_Witness ==
    /\ pc = "decode"
    /\ Len(sent) >= 4
    /\ Last(sent).role = "developer"
    /\ RegisteredTool(sent[Len(sent) - 1].content)

(***************************************************************************)
(* C3 as stated: after a malformed reply (text that is not JSON, JSON that *)
(* is not an object, an object without a recognized step) the loop makes   *)
(* exactly one more model call and the run is not ended.                   *)
(***************************************************************************)
Malformed(text) == text.form \in {"prose", "array"} \/ UnknownStep(text)

C3_Claim ==
    [][ (pc = "decode" /\ Malformed(raw))
            => pc' = "call" /\ runCalls' = runCalls + 1 /\ raised' = None
      ]_vars

(***************************************************************************)
(* C4: when a reply fails to parse as JSON, nothing is appended to or      *)
(* removed from message_history until the next model call, which is sent   *)
(* the memory of the previous call plus the invalid assistant message as   *)
(* its last element.                                                       *)
(***************************************************************************)
C4_ParseErrorFrame ==
    [][ /\ (pc = "decode" /\ raw.form = "prose")
            => /\ pc' = "call"
               /\ message_history' = message_history
               /\ toolsSince' = 0
        /\ (raw.form = "prose" /\ raw' = raw /\ ~ModelCall)
            => message_history' = message_history
        /\ (ModelCall /\ raw.form = "prose")
            => /\ sent' = message_history
               /\ Last(sent') = AssistantMessage(raw)
               /\ toolsSince = 0
               /\ tries = 0 => message_history
                                   = Append(sent, AssistantMessage(raw))
               /\ pc' # "decode" => message_history' = message_history
      ]_vars

C4_Witness ==
    /\ pc = "decode"
    /\ Len(sent) >= 3
    /\ Last(sent) = AssistantMessage(Prose("not json"))

(***************************************************************************)
(* C5: message_history is append-only: in every step the old contents are *)
(* a prefix of the new contents, also in runs that an error aborts.        *)
(***************************************************************************)
C5_AppendOnly == [][IsPrefix(message_history, message_history')]_vars

C5_Witness ==
    /\ pc = "aborted"
    /\ requests = 2
    /\ Len(message_history) >= 5

(***************************************************************************)
(* C6: message_history has a system message at position 0 and no system    *)
(* message at any other position.                                          *)
(***************************************************************************)
C6_OneSystemMessage ==
    /\ message_history[1].role = "system"
    /\ \A i \in 2..Len(message_history) : message_history[i].role # "system"

C6_Witness ==
    /\ requests = 2
    /\ pc = "done"
    /\ Len(message_history) >= 6

(***************************************************************************)
(* C7: a TOOL step whose tool is not a key of the registry (also one with  *)
(* no tool field) raises a dispatch error that aborts the run; no tool is  *)
(* invoked, no observation is appended, the step is not skipped.           *)
(***************************************************************************)
C7_DispatchError ==
    [][ /\ (pc = "decode" /\ UnregisteredTool(raw))
            => /\ pc' = "aborted"
               /\ raised' = "KeyError"
               /\ message_history' = message_history
               /\ runTools' = runTools
               /\ toolsSince' = 0
               /\ ~ModelCall
        /\ (pc' = "aborted" /\ raised' = "KeyError")
            => /\ UnregisteredTool(raw')
               /\ Last(message_history') = AssistantMessage(raw')
      ]_vars

C7_Witness ==
    /\ pc = "aborted"
    /\ raised = "KeyError"
    /\ raw.tool = "delete_everything"
    /\ Last(message_history) = AssistantMessage(raw)

(***************************************************************************)
(* C8: cli.py, safe_llm_call: n rate-limit failures followed by a success  *)
(* make exactly n waits and n+1 request attempts, all of them sending the  *)
(* same unchanged message_history, and then one assistant message is       *)
(* appended for the reply.                                                 *)
(***************************************************************************)
C8_RateLimitRetry ==
    [][ program = "cli" =>
        /\ (ModelCall /\ rateFails' = rateFails + 1)
            => /\ pc' = "sleep"
               /\ sleeps' = sleeps + 1
               /\ message_history' = message_history
        /\ pc = "sleep"
            => /\ pc' = "call"
               /\ ~ModelCall
               /\ sleeps' = sleeps
               /\ message_history' = message_history
        /\ (ModelCall /\ tries >= 1) => sent' = sent
        /\ (pc = "call" /\ pc' = "decode" /\ otherFails = 0)
            => /\ ModelCall
               /\ sleeps = rateFails
               /\ tries' = rateFails + 1
               /\ sent' = message_history
               /\ message_history'
                      = Append(message_history, AssistantMessage(raw'))
      ]_vars

C8_Witness ==
    /\ program = "cli"
    /\ pc = "decode"
    /\ otherFails = 0
    /\ rateFails = 2
    /\ sleeps = 2
    /\ tries = 3
    /\ Last(message_history) = AssistantMessage(raw)

(***************************************************************************)
(* C9 as stated: in cli.py and in app.py alike a rate-limit failure of the *)
(* model call is followed by a wait and a retry; it never leaves run_agent *)
(* and never ends the run.                                                 *)
(***************************************************************************)
C9_Claim ==
    [][ (ModelCall /\ rateFails' = rateFails + 1)
            => pc' = "sleep" /\ raised' = None
      ]_vars

(***************************************************************************)
(* C10 as stated: a model-service failure that is not a rate-limit signal  *)
(* is fatal: no wait and no further attempt follows it, it leaves          *)
(* run_agent and ends the run, and nothing is appended for it.             *)
(***************************************************************************)
C10_Claim ==
    [][ (ModelCall /\ otherFails' = otherFails + 1)
            => /\ pc' = "aborted"
               /\ raised' \in {"APIConnectionError", "InternalServerError"}
               /\ sleeps' = sleeps
               /\ message_history' = message_history
      ]_vars

(***************************************************************************)
(* C11 as stated: a reply that parses to a JSON object whose step is       *)
(* absent or outside {PLAN, TOOL, OUTPUT} is a Protocol Error: handling it *)
(* ends in an error outcome, it is not passed over on the way to the next  *)
(* model call.                                                             *)
(***************************************************************************)
C11_Claim ==
    [][ (pc = "decode" /\ UnknownStep(raw))
            => pc' = "aborted" /\ raised' # None
      ]_vars

(***************************************************************************)
(* C12: handling a PLAN step appends nothing to message_history and        *)
(* invokes no tool; the next model call is sent the memory whose last      *)
(* message is the PLAN assistant message.                                  *)
(***************************************************************************)
C12_PlanFrame ==
    [][ /\ (pc = "decode" /\ IsStep(raw, "PLAN"))
            => /\ pc' = "call"
               /\ message_history' = message_history
               /\ Last(message_history) = AssistantMessage(raw)
               /\ runTools' = runTools
               /\ toolsSince' = 0
        /\ (IsStep(raw, "PLAN") /\ raw' = raw /\ pc' # "decode")
            => message_history' = message_history /\ runTools' = runTools
        /\ (ModelCall /\ IsStep(raw, "PLAN"))
            => /\ sent' = message_history
               /\ Last(sent') = AssistantMessage(raw)
               /\ toolsSince = 0
               /\ tries = 0 => message_history
                                   = Append(sent, AssistantMessage(raw))
      ]_vars

C12_Witness ==
    /\ pc = "decode"
    /\ Len(sent) >= 3
    /\ Last(sent).role = "assistant"
    /\ IsStep(Last(sent).content, "PLAN")

(***************************************************************************)
(* C13: a request that the model answers, in this order and with no        *)
(* service failure, by a PLAN step, a TOOL step of a registered tool and   *)
(* an OUTPUT step makes exactly three model calls and one tool invocation, *)
(* extends message_history by user, assistant(PLAN), assistant(TOOL),      *)
(* observation (same tool, the tool's string), assistant(OUTPUT), prints   *)
(* the OUTPUT content as the answer and terminates.                        *)
(***************************************************************************)
\* the messages of the current run: from its user message to the end
RunMessages(h) ==
    IF \A i \in 1..Len(h) : h[i].role # "user" THEN <<>>
    ELSE LET first == CHOOSE i \in 1..Len(h) :
                          /\ h[i].role = "user"
                          /\ \A j \in (i + 1)..Len(h) : h[j].role # "user"
         IN  SubSeq(h, first, Len(h))

IsAssistant(m) == m.role = "assistant"

\* the replies of the current run, in order
RunReplies(h) == SelectSeq(RunMessages(h), IsAssistant)

PlanToolOutput ==
    /\ runFails = 0
    /\ Len(RunReplies(message_history)) = 3
    /\ IsStep(RunReplies(message_history)[1].content, "PLAN")
    /\ RegisteredTool(RunReplies(message_history)[2].content)
    /\ IsStep(RunReplies(message_history)[3].content, "OUTPUT")

C13_Scenario ==
    [][ /\ PlanToolOutput'
            => LET run == RunMessages(message_history')
                   step == run[3].content
               IN  /\ pc' \in {"decode", "done", "exited"}
                   /\ runAttempts' = 3
                   /\ runCalls' = 3
                   /\ runTools' = 1
                   /\ Len(run) = 5
                   /\ run[1].role = "user"
                   /\ run[2] = AssistantMessage(run[2].content)
                   /\ IsStep(run[2].content, "PLAN")
                   /\ run[3] = AssistantMessage(step)
                   /\ RegisteredTool(step)
                   /\ run[4].role = "developer"
                   /\ \E result \in ToolResults(step.tool, step.input) :
                          run[4].content =
                              JsonObject("OBSERVE", None, step.tool, None,
                                         result)
                   /\ run[5] = AssistantMessage(raw')
                   /\ IsStep(raw', "OUTPUT")
                   /\ pc' # "decode" => final_answer' = raw'.content
        /\ (PlanToolOutput /\ pc = "decode")
            => pc' = "done" /\ ~ModelCall /\ runTools' = runTools
        /\ (PlanToolOutput /\ pc = "done")
            => ~ModelCall /\ (requests' = requests + 1 \/ pc' = "exited")
      ]_vars

C13_Witness ==
    /\ pc = "done"
    /\ PlanToolOutput
    /\ final_answer = "It is sunny"
    /\ Len(RunMessages(message_history)) = 5

(***************************************************************************)
(* C14: a failure inside a registered tool never reaches the loop: every   *)
(* invocation returns a string, a failing tool (also one called with a     *)
(* missing input) yields exactly one observation whose output is the error *)
(* description, and the run goes on to the next model call.                *)
(***************************************************************************)
\* the strings the except branches of the tools return
ErrorDescriptions ==
    {"TypeError", "OSError", "Write error: TypeError",
     "Write error: JSONDecodeError", "Read error: TypeError",
     "Read error: FileNotFoundError", "Weather API error"}

C14_ToolErrorsContained ==
    [][ pc = "tool"
            => /\ pc' = "call"
               /\ raised' = None
               /\ runCalls' = runCalls + 1
               /\ \E result \in ToolResults(tool_name, tool_input) :
                      /\ result \notin ToolExceptions
                      /\ tool_input = None => result \in ErrorDescriptions
                      /\ message_history' =
                             Append(message_history,
                                    [role |-> "developer",
                                     content |-> JsonObject("OBSERVE", None,
                                                     tool_name, None, result)])
      ]_vars

C14_Witness ==
    /\ pc = "decode"
    /\ Len(sent) >= 4
    /\ Last(sent).role = "developer"
    /\ Last(sent).content.output = "Read error: TypeError"
    /\ sent[Len(sent) - 1].content.input = None

(***************************************************************************)
(* C15 as stated: at any point of a run the number of messages appended    *)
(* since the run started is 1 (the user message) plus the number of        *)
(* model-call attempts made, failed ones included, plus the number of tool *)
(* invocations made.                                                       *)
(***************************************************************************)
C15_Original ==
    (requests >= 1 /\ pc # "exited")
        => Len(RunMessages(message_history)) = 1 + runAttempts + runTools

(***************************************************************************)
(* C15 amended: at any point of a run the number of messages appended      *)
(* since the run started is 1 plus the number of model-call attempts that  *)
(* returned a reply plus the number of tool invocations that have          *)
(* returned; an attempt that fails, rate-limited or fatal, appends         *)
(* nothing.                                                                *)
(***************************************************************************)
C15_Amended ==
    (requests >= 1 /\ pc # "exited")
        => Len(RunMessages(message_history))
               = 1 + (runAttempts - runFails)
                   + (IF pc = "tool" THEN runTools - 1 ELSE runTools)

C15_Witness ==
    /\ pc = "decode"
    /\ runFails = 1
    /\ runAttempts = 3
    /\ runTools = 1
    /\ Len(RunMessages(message_history)) = 4

(***************************************************************************)
(* C16: every observation message in message_history comes right after an  *)
(* assistant message that decodes to a TOOL step, and carries that step's  *)
(* tool name; no observation follows a user, system, PLAN, OUTPUT,         *)
(* malformed or observation message.                                       *)
(***************************************************************************)
C16_ObservationFollowsTool ==
    \A i \in 1..Len(message_history) :
        message_history[i].role = "developer"
            => /\ i >= 2
               /\ message_history[i - 1].role = "assistant"
               /\ IsStep(message_history[i - 1].content, "TOOL")
               /\ message_history[i].content.step = "OBSERVE"
               /\ message_history[i].content.tool
                      = message_history[i - 1].content.tool

C16_Witness ==
    /\ requests = 2
    /\ pc = "decode"
    /\ \E i \in 1..Len(message_history) :
           message_history[i].role = "developer"

(***************************************************************************)
(* C17: execution is sequential with at most one tool call per model turn: *)
(* a tool is invoked only after a reply has been received and appended, at *)
(* most one tool is invoked between two successful model calls, and no     *)
(* model call starts while a tool runs or a backoff wait lasts.            *)
(***************************************************************************)
C17_Sequential ==
    [][ /\ (runTools' = runTools + 1 \/ toolsSince' = toolsSince + 1)
            => /\ pc = "decode"
               /\ pc' = "tool"
               /\ toolsSince = 0
               /\ Last(message_history) = AssistantMessage(raw)
               /\ ~ModelCall
        /\ toolsSince' <= 1
        /\ ModelCall => pc = "call"
        /\ pc \in {"tool", "sleep"}
            => /\ attempts' = attempts
               /\ runTools' = runTools
               /\ pc' = "call"
      ]_vars

C17_Witness ==
    /\ pc = "decode"
    /\ runTools = 2
    /\ toolsSince = 0
    /\ runCalls = 3

(***************************************************************************)
(* Fairness: run_agent is a sequential program that takes its next step,   *)
(* the model service answers or fails every request, a sleep and a tool    *)
(* call return.  Nothing obliges a user or caller to make another request. *)
(***************************************************************************)
LoopStep ==
    \/ \E content \in Replies : reply_received(content)
    \/ \E e \in ServiceErrors : safe_llm_call_except(e)
    \/ sleep_returns
    \/ \E e \in ServiceErrors : create_raises(e)
    \/ parse_error
    \/ not_a_dict
    \/ plan_step
    \/ tool_step
    \/ tool_missing
    \/ tool_returns
    \/ output_step
    \/ other_step

FairSpec == Spec /\ WF_vars(LoopStep)

(***************************************************************************)
(* C18 as stated: a run has no bound on its model calls, and if the model  *)
(* service stops signalling rate limits, raises no fatal error, names only *)
(* registered tools and in the end replies with an OUTPUT step, the run    *)
(* reaches the terminal state DONE.  A run that an exception has ended can *)
(* no longer reach DONE, so the claim requires: a run is ended by an       *)
(* exception only when the service raised a fatal error or the model named *)
(* an unregistered tool.  Stated for cli.py, whose safe_llm_call the claim *)
(* cites.                                                                  *)
(***************************************************************************)
EnvironmentFailed ==
    \/ raised \in {"APIConnectionError", "InternalServerError"}
    \/ raised = "KeyError" /\ UnregisteredTool(raw)

C18_Claim == (program = "cli" /\ pc = "aborted") => EnvironmentFailed

(***************************************************************************)
(* C19: a run that an error aborts leaves message_history as it is: after  *)
(* a fatal model-service error on the first call the user message stays    *)
(* last, unanswered; after a dispatch error the TOOL assistant message     *)
(* stays last.  The next run_agent call appends its user message right     *)
(* after the leftover and sends all of it to the model.                    *)
(***************************************************************************)
AbortStep == pc' = "aborted" /\ pc # "aborted"

C19_NoRollback ==
    [][ /\ AbortStep => message_history' = message_history
        /\ (AbortStep /\ pc = "call" /\ runCalls = 1)
            => /\ Last(message_history').role = "user"
               /\ raised' \in {"RateLimitError", "APIConnectionError",
                               "InternalServerError"}
        /\ (AbortStep /\ raised' = "KeyError")
            => /\ Last(message_history') = AssistantMessage(raw')
               /\ IsStep(raw', "TOOL")
        /\ (pc = "aborted" /\ requests' = requests + 1)
            => \E user_query \in Queries :
                   message_history' =
                       Append(message_history, UserMessage(user_query))
        /\ (ModelCall /\ runAttempts = 0)
            => sent' = message_history /\ Last(sent').role = "user"
      ]_vars

\* the next run's model call was sent two user messages in a row and a TOOL
\* step followed by a user message
C19_Witness ==
    /\ \E i \in 1..(Len(sent) - 1) :
           sent[i].role = "user" /\ sent[i + 1].role = "user"
    /\ \E i \in 1..(Len(sent) - 1) :
           /\ sent[i].role = "assistant"
           /\ IsStep(sent[i].content, "TOOL")
           /\ sent[i + 1].role = "user"

(***************************************************************************)
(* C20: when run_agent has returned, the last message of message_history   *)
(* is the assistant message of the OUTPUT step and nothing is appended     *)
(* after it until the next request; the first model call of the next       *)
(* request is sent the whole history of the earlier requests followed by   *)
(* the new user message.                                                   *)
(***************************************************************************)
C20_MemoryCarried ==
    [][ /\ pc' = "done"
            => /\ Last(message_history') = AssistantMessage(raw')
               /\ IsStep(raw', "OUTPUT")
               /\ message_history' = Append(sent', AssistantMessage(raw'))
        /\ pc = "done"
            => \/ message_history' = message_history
               \/ /\ requests' = requests + 1
                  /\ \E user_query \in Queries :
                         message_history' =
                             Append(message_history, UserMessage(user_query))
        /\ (ModelCall /\ runAttempts = 0 /\ requests >= 2)
            => /\ sent' = message_history
               /\ IsPrefix(sent, sent')
               /\ Last(sent').role = "user"
               /\ IsStep(message_history[Len(message_history) - 1].content,
                         "OUTPUT")
                    => sent' = sent \o
                           <<message_history[Len(message_history) - 1],
                             Last(message_history)>>
      ]_vars

C20_Witness ==
    /\ requests = 2
    /\ runAttempts = 1
    /\ pc = "decode"
    /\ Len(sent) >= 4
    /\ Last(sent).role = "user"
    /\ IsStep(sent[Len(sent) - 1].content, "OUTPUT")
    /\ sent[2].role = "user"

====
